---- MODULE Spec2Model ----
(***************************************************************************)
(* Model of src/src/yolo11.cpp: the YOLOv11 post-processing pipeline       *)
(* (decode, parallel quicksort, greedy NMS, inverse letterbox mapping) and *)
(* the control flow of main().                                             *)
(*                                                                         *)
(* Numbers.  The C++ code computes in IEEE-754 binary32.  The model        *)
(* computes in exact rationals <<n, d>> (d > 0, lowest terms), and models  *)
(* every conversion that changes a value on purpose (int truncation,       *)
(* integer division, clamp, 0.f/0.f giving NaN and x/0.f giving +inf in a  *)
(* comparison).  The one place where binary32 rounding decides an integer  *)
(* result, w = w * scale and h = h * scale in detect, is computed with the *)
(* binary32 roundings (FloatDiv, FloatMulTrunc).                           *)
(***************************************************************************)
EXTENDS Integers, Sequences, FiniteSets, TLC

VARIABLES
    proposals,      \* std::vector<Object>: the list parse fills, qsort reorders, nms reads
    sortIn,         \* the list as it was handed to qsort_descent_inplace (history)
    frames,         \* live activations of qsort_descent_inplace(objects, left, right), by call path
    sortPc,         \* position of the caller in qsort_descent_inplace(objects)
    nms_threshold,  \* nms_sorted_bboxes parameter, a rational
    agnostic,       \* nms_sorted_bboxes parameter
    picked,         \* std::vector<int> picked
    nmsI,           \* outer loop index i of nms_sorted_bboxes
    divByZero,      \* TRUE once inter_area / union_area was evaluated with union_area = 0
    nmsPc,          \* position in nms_sorted_bboxes
    mpc,            \* the last step main() completed
    argc,           \* main's argc
    imgEmpty,       \* whether cv::imread returned an empty image
    img,            \* cols and rows of the image read
    net,            \* ncnn::Net net: "unconstructed", "loaded", or "missing" (files not found)
    out,            \* ncnn::Mat out after ex->extract: w anchors, h channels, data
    conf_thres,     \* fconf_thres
    lb,             \* detect's scale, w, h, wpad, hpad and the size of in_pad
    objects,        \* the std::vector<Object> detect fills
    exited,         \* whether main has returned
    exitCode,       \* main's return value once exited
    diag            \* whether main wrote a message to stderr

sortVars == <<sortIn, frames, sortPc>>
nmsVars  == <<nms_threshold, agnostic, picked, nmsI, divByZero, nmsPc>>
mainVars == <<mpc, argc, imgEmpty, img, net, out, conf_thres, lb,
              objects, exited, exitCode, diag>>
vars == <<proposals, sortIn, frames, sortPc, nms_threshold, agnostic, picked, nmsI,
          divByZero, nmsPc, mpc, argc, imgEmpty, img, net, out,
          conf_thres, lb, objects, exited, exitCode, diag>>

----------------------------------------------------------------------------
(* Exact rationals standing for float values *)

RECURSIVE Gcd(_, _)
Gcd(a, b) == IF b = 0 THEN a ELSE Gcd(b, a % b)

Abs(a) == IF a < 0 THEN 0 - a ELSE a

\* the rational n/d (d # 0) in lowest terms with positive denominator
Q(n, d) ==
    LET g == Gcd(Abs(n), Abs(d))
        s == IF d < 0 THEN 0 - 1 ELSE 1
    IN  <<(s * n) \div g, (s * d) \div g>>

QInt(n) == <<n, 1>>
QAdd(a, b) == Q(a[1] * b[2] + b[1] * a[2], a[2] * b[2])
QSub(a, b) == Q(a[1] * b[2] - b[1] * a[2], a[2] * b[2])
QMul(a, b) == Q(a[1] * b[1], a[2] * b[2])
QDiv(a, b) == Q(a[1] * b[2], a[2] * b[1])
QLt(a, b) == a[1] * b[2] < b[1] * a[2]
QLe(a, b) == a[1] * b[2] <= b[1] * a[2]
QZero == QInt(0)

\* std::min(a, b) and std::max(a, b)
StdMin(a, b) == IF QLt(b, a) THEN b ELSE a
StdMax(a, b) == IF QLt(a, b) THEN b ELSE a

\* (int) of a float: truncation toward zero
Trunc(a) == IF a[1] >= 0 THEN a[1] \div a[2] ELSE 0 - ((0 - a[1]) \div a[2])

----------------------------------------------------------------------------
(* struct Object and cv::Rect_<float> *)

Rect(x, y, w, h) == [x |-> x, y |-> y, width |-> w, height |-> h]
Object(r, l, p) == [rect |-> r, label |-> l, prob |-> p]

\* cv::Rect_::area()
Area(r) == QMul(r.width, r.height)

\* cv::Rect_::empty()
RectEmpty(r) == QLe(r.width, QZero) \/ QLe(r.height, QZero)

\* a.rect & b.rect, then .area(): the overlap, an empty Rect() when there is none
intersection_area(a, b) ==
    LET x1 == StdMax(a.rect.x, b.rect.x)
        y1 == StdMax(a.rect.y, b.rect.y)
        w  == QSub(StdMin(QAdd(a.rect.x, a.rect.width), QAdd(b.rect.x, b.rect.width)), x1)
        h  == QSub(StdMin(QAdd(a.rect.y, a.rect.height), QAdd(b.rect.y, b.rect.height)), y1)
    IN  IF RectEmpty(a.rect) \/ RectEmpty(b.rect) \/ QLe(w, QZero) \/ QLe(h, QZero)
        THEN QZero
        ELSE QMul(w, h)

\* objects[k] for the 0-based C++ index k
At(objs, k) == objs[k + 1]

Swap(objs, a, b) ==
    [objs EXCEPT ![a + 1] = objs[b + 1], ![b + 1] = objs[a + 1]]

----------------------------------------------------------------------------
(* qsort_descent_inplace: the parallel quicksort.                          *)
(* A finished frame stays in frames with pc = "done" (the call tree).       *)
(* Every activation of qsort_descent_inplace(objects, left, right) is a    *)
(* frame, named by its call path (<<>> the outermost, path \o <<1>> the    *)
(* first omp section, path \o <<2>> the second).  One step of one frame is *)
(* one evaluation of a loop condition, one swap, the fork or the join, so  *)
(* the two sections of every level interleave freely; acc collects the     *)
(* indices of objects[] the frame has read or written.                     *)

\* longest list handed to the sorter
MaxLen == 5
\* the prob values of the lists: three values give every outcome of a comparison with the pivot
ProbValues == {Q(3, 10), Q(1, 2), Q(9, 10)}

Frame(l, r) ==
    [left |-> l, right |-> r, i |-> l, j |-> r, p |-> QZero, pc |-> "pivot", acc |-> {}]

Child1(f) == f \o <<1>>
Child2(f) == f \o <<2>>

\* if (!objects.empty()) qsort_descent_inplace(objects, 0, objects.size() - 1);
QsortCall ==
    /\ sortPc = "call"
    /\ IF proposals # <<>>
       THEN /\ frames' = (<<>> :> Frame(0, Len(proposals) - 1))
            /\ sortPc' = "running"
       ELSE /\ frames' = frames
            /\ sortPc' = "returned"
    /\ UNCHANGED <<proposals, sortIn, nmsVars, mainVars>>

\* int i = left, j = right; float p = objects[(left + right) / 2].prob;
Pivot(f) ==
    /\ frames[f].pc = "pivot"
    /\ LET m == (frames[f].left + frames[f].right) \div 2
       IN  frames' = [frames EXCEPT ![f].p = At(proposals, m).prob,
                                    ![f].acc = @ \cup {m},
                                    ![f].pc = "outer"]
    /\ UNCHANGED <<proposals, sortIn, sortPc, nmsVars, mainVars>>

\* while (i <= j)
OuterTest(f) ==
    /\ frames[f].pc = "outer"
    /\ frames' = [frames EXCEPT ![f].pc = IF frames[f].i <= frames[f].j
                                          THEN "scanI" ELSE "fork"]
    /\ UNCHANGED <<proposals, sortIn, sortPc, nmsVars, mainVars>>

\* whether k indexes an element of the vector; a read outside it is undefined
\* behaviour: the frame records the access and stops in "ub"
InVector(k) == k \in 0 .. (Len(proposals) - 1)

\* while (objects[i].prob > p) i++;
ScanI(f) ==
    /\ frames[f].pc = "scanI"
    /\ LET k == frames[f].i
       IN  frames' = [frames EXCEPT
               ![f].acc = @ \cup {k},
               ![f].i = IF InVector(k) /\ QLt(frames[f].p, At(proposals, k).prob)
                        THEN k + 1 ELSE k,
               ![f].pc = IF ~InVector(k) THEN "ub"
                         ELSE IF QLt(frames[f].p, At(proposals, k).prob) THEN "scanI"
                         ELSE "scanJ"]
    /\ UNCHANGED <<proposals, sortIn, sortPc, nmsVars, mainVars>>

\* while (objects[j].prob < p) j--;
ScanJ(f) ==
    /\ frames[f].pc = "scanJ"
    /\ LET k == frames[f].j
       IN  frames' = [frames EXCEPT
               ![f].acc = @ \cup {k},
               ![f].j = IF InVector(k) /\ QLt(At(proposals, k).prob, frames[f].p)
                        THEN k - 1 ELSE k,
               ![f].pc = IF ~InVector(k) THEN "ub"
                         ELSE IF QLt(At(proposals, k).prob, frames[f].p) THEN "scanJ"
                         ELSE "swap"]
    /\ UNCHANGED <<proposals, sortIn, sortPc, nmsVars, mainVars>>

\* if (i <= j) std::swap(objects[i++], objects[j--]);
SwapStep(f) ==
    /\ frames[f].pc = "swap"
    /\ IF frames[f].i <= frames[f].j
       THEN /\ proposals' = Swap(proposals, frames[f].i, frames[f].j)
            /\ frames' = [frames EXCEPT ![f].i = @ + 1, ![f].j = @ - 1,
                                        ![f].acc = @ \cup {frames[f].i, frames[f].j},
                                        ![f].pc = "outer"]
       ELSE /\ proposals' = proposals
            /\ frames' = [frames EXCEPT ![f].pc = "outer"]
    /\ UNCHANGED <<sortIn, sortPc, nmsVars, mainVars>>

\* a parallel region whose second section is lost
SectionsFirstOnly(fr, f) ==
    IF fr.left < fr.j THEN Child1(f) :> Frame(fr.left, fr.j) ELSE <<>>

\* the sections a frame starts: if (left < j) ... (left, j); if (i < right) ... (i, right)
Sections(fr, f) ==
    (IF fr.left < fr.j THEN Child1(f) :> Frame(fr.left, fr.j) ELSE <<>>)
        @@ (IF fr.i < fr.right THEN Child2(f) :> Frame(fr.i, fr.right) ELSE <<>>)

\* #pragma omp parallel sections: both sections start
Fork(f) ==
    /\ frames[f].pc = "fork"
    /\ frames' = Sections(frames[f], f) @@ [frames EXCEPT ![f].pc = "join"]
    /\ UNCHANGED <<proposals, sortIn, sortPc, nmsVars, mainVars>>

\* a parallel region closed without its barrier (nowait)
SectionsNoWait(f) == TRUE

\* whether the frame at the end of its parallel region may leave it
SectionsDone(f) ==
    \A c \in {Child1(f), Child2(f)} : c \in DOMAIN frames => frames[c].pc = "done"

\* the implicit barrier closing the parallel region, then the function returns
Join(f) ==
    /\ frames[f].pc = "join"
    /\ SectionsDone(f)
    /\ frames' = [frames EXCEPT ![f].pc = "done"]
    /\ UNCHANGED <<proposals, sortIn, sortPc, nmsVars, mainVars>>

\* qsort_descent_inplace(objects) returns to its caller
QsortReturn ==
    /\ sortPc = "running"
    /\ <<>> \in DOMAIN frames
    /\ frames[<<>>].pc = "done"
    /\ frames' = frames
    /\ sortPc' = "returned"
    /\ UNCHANGED <<proposals, sortIn, nmsVars, mainVars>>

\* main() is not running
MainIdle ==
    /\ mpc = "idle"
    /\ argc = 0
    /\ imgEmpty = FALSE
    /\ img = [cols |-> 0, rows |-> 0]
    /\ net = "unconstructed"
    /\ out = [w |-> 0, h |-> 0, data |-> <<>>]
    /\ conf_thres = QZero
    /\ lb = <<>>
    /\ objects = <<>>
    /\ exited = FALSE
    /\ exitCode = 0
    /\ diag = FALSE

\* the candidate lists handed to the sorter: prob in ProbValues (stands for a score
\* above the threshold), label the position in the input so every object is distinct
SortInputs ==
    UNION {[1 .. n -> ProbValues] : n \in 0 .. MaxLen}

SortObjects(ps) ==
    [k \in 1 .. Len(ps) |-> Object(Rect(QZero, QZero, QZero, QZero), k, ps[k])]

InitSort ==
    /\ \E ps \in SortInputs : proposals = SortObjects(ps)
    /\ sortIn = proposals
    /\ frames = <<>>
    /\ sortPc = "call"
    /\ nms_threshold = QZero
    /\ agnostic = FALSE
    /\ picked = <<>>
    /\ nmsI = 0
    /\ divByZero = FALSE
    /\ nmsPc = "idle"
    /\ MainIdle

NextSort ==
    \/ QsortCall
    \/ \E f \in DOMAIN frames : Pivot(f)
    \/ \E f \in DOMAIN frames : OuterTest(f)
    \/ \E f \in DOMAIN frames : ScanI(f)
    \/ \E f \in DOMAIN frames : ScanJ(f)
    \/ \E f \in DOMAIN frames : SwapStep(f)
    \/ \E f \in DOMAIN frames : Fork(f)
    \/ \E f \in DOMAIN frames : Join(f)
    \/ QsortReturn

SpecSort == InitSort /\ [][NextSort]_vars

----------------------------------------------------------------------------
(* nms_sorted_bboxes: greedy non-max suppression over the sorted list *)

\* areas[i] + areas[j] - inter_area
UnionArea(a, b) == QSub(QAdd(Area(a.rect), Area(b.rect)), intersection_area(a, b))

\* inter_area / union_area > nms_threshold, as binary32 evaluates it: x / 0 is +inf for
\* x > 0 and 0 / 0 is NaN, and every comparison with NaN is false
IoUExceeds(inter, union, thr) ==
    IF union[1] = 0 THEN inter[1] > 0 ELSE QLt(thr, QDiv(inter, union))

\* a comparison that ignores the class-agnostic flag
ComparedAnyLabel(agn, a, b) == TRUE

\* false when the inner loop skips the pair: if (!agnostic && a.label != b.label) continue;
Compared(agn, a, b) == agn \/ a.label = b.label

\* keep of one outer iteration: 0 as soon as one picked box overlaps too much
Keep(objs, pk, i, thr, agn) ==
    ~\E n \in 1 .. Len(pk) :
        LET a == At(objs, i)
            b == At(objs, pk[n])
        IN  /\ Compared(agn, a, b)
            /\ IoUExceeds(intersection_area(a, b), UnionArea(a, b), thr)

\* whether the iteration evaluates inter_area / union_area with union_area = 0
DividesByZero(objs, pk, i, agn) ==
    \E n \in 1 .. Len(pk) :
        LET a == At(objs, i)
            b == At(objs, pk[n])
        IN  Compared(agn, a, b) /\ UnionArea(a, b)[1] = 0

\* picked after the outer iteration i: if (keep) picked.push_back(i);
NmsIteration(objs, pk, i, thr, agn) ==
    IF Keep(objs, pk, i, thr, agn) THEN Append(pk, i) ELSE pk

\* the whole function, from outer index i with pk picked so far
RECURSIVE NmsFrom(_, _, _, _, _)
NmsFrom(objs, pk, i, thr, agn) ==
    IF i < Len(objs)
    THEN NmsFrom(objs, NmsIteration(objs, pk, i, thr, agn), i + 1, thr, agn)
    ELSE pk

nms_sorted_bboxes(objs, thr, agn) == NmsFrom(objs, <<>>, 0, thr, agn)

\* picked.clear(); n = faceobjects.size(); areas
NmsEnter ==
    /\ nmsPc = "call"
    /\ picked' = <<>>
    /\ nmsI' = 0
    /\ nmsPc' = "loop"
    /\ UNCHANGED <<proposals, sortVars, nms_threshold, agnostic, divByZero, mainVars>>

\* one iteration of for (int i = 0; i < n; i++)
NmsStep ==
    /\ nmsPc = "loop"
    /\ nmsI < Len(proposals)
    /\ picked' = NmsIteration(proposals, picked, nmsI, nms_threshold, agnostic)
    /\ divByZero' = (divByZero \/ DividesByZero(proposals, picked, nmsI, agnostic))
    /\ nmsI' = nmsI + 1
    /\ UNCHANGED <<proposals, sortVars, nms_threshold, agnostic, nmsPc, mainVars>>

\* the loop ends and the function returns
NmsReturn ==
    /\ nmsPc = "loop"
    /\ nmsI >= Len(proposals)
    /\ nmsPc' = "done"
    /\ UNCHANGED <<proposals, sortVars, nms_threshold, agnostic, picked, nmsI, divByZero,
                   mainVars>>

\* most candidates in a list handed to nms_sorted_bboxes
MaxBoxes == 3

\* boxes (x, y, width, height): A and B overlap with IoU 6/10, A and C with 1/7,
\* B and C with 1/3, Z has zero area, N has the negative width a decoded row with
\* w < 0 produces
BoxA == Rect(QInt(0), QInt(0), QInt(4), QInt(2))
BoxB == Rect(QInt(1), QInt(0), QInt(4), QInt(2))
BoxC == Rect(QInt(3), QInt(0), QInt(4), QInt(2))
BoxZ == Rect(QInt(2), QInt(0), QInt(0), QInt(2))
BoxN == Rect(QInt(4), QInt(0), QInt(0 - 2), QInt(2))
Boxes == {BoxA, BoxB, BoxC, BoxZ, BoxN}
Labels == {0, 1}

\* thresholds: the default 0.45, 0.6 (the IoU of A and B exactly) and a negative one
Thresholds == {Q(9, 20), Q(3, 5), Q(0 - 1, 2)}

\* sorted lists: the k-th candidate has prob (10 - k) / 10
NmsInputs ==
    UNION {[1 .. n -> Boxes \X Labels] : n \in 0 .. MaxBoxes}

NmsObjects(cs) ==
    [k \in 1 .. Len(cs) |-> Object(cs[k][1], cs[k][2], Q(10 - k, 10))]

InitNms ==
    /\ \E cs \in NmsInputs : proposals = NmsObjects(cs)
    /\ nms_threshold \in Thresholds
    /\ agnostic \in BOOLEAN
    /\ picked = <<>>
    /\ nmsI = 0
    /\ divByZero = FALSE
    /\ nmsPc = "call"
    /\ sortIn = <<>>
    /\ frames = <<>>
    /\ sortPc = "idle"
    /\ MainIdle

NextNms == NmsEnter \/ NmsStep \/ NmsReturn

SpecNms == InitNms /\ [][NextNms]_vars

----------------------------------------------------------------------------
(* parse_yolov11_detections: the decoder *)

\* std::max(min, std::min(max, d)) without the upper bound
ClampLowOnly(d, min, max) == StdMax(min, d)

clampf(d, min, max) == StdMax(min, StdMin(max, d))

\* score >= conf_thres
ScoreAtLeast(score, conf) == QLe(conf, score)

\* if (score > conf_thres)
ScoreAbove(score, conf) == QLt(conf, score)

\* row i of output.t(): the buffer is num_channels x num_anchors, channel-major
Row(inputs, num_channels, num_anchors, i) ==
    [c \in 0 .. (num_channels - 1) |-> inputs[c * num_anchors + i + 1]]

\* std::max_element(cls, cls + num_labels) - cls: the first largest score
RECURSIVE MaxElementFrom(_, _, _, _)
MaxElementFrom(row, num_labels, c, best) ==
    IF c >= num_labels THEN best
    ELSE MaxElementFrom(row, num_labels, c + 1,
                        IF QLt(row[4 + best], row[4 + c]) THEN c ELSE best)

MaxElement(row, num_labels) == MaxElementFrom(row, num_labels, 1, 0)

\* the body of the loop over anchors: the detection pushed for one row, if any
ParseAnchor(row, conf, num_labels, img_w, img_h) ==
    LET label == MaxElement(row, num_labels)
        score == row[4 + label]
        hw == QMul(Q(1, 2), row[2])
        hh == QMul(Q(1, 2), row[3])
        x0 == clampf(QSub(row[0], hw), QZero, QInt(img_w))
        y0 == clampf(QSub(row[1], hh), QZero, QInt(img_h))
        x1 == clampf(QAdd(row[0], hw), QZero, QInt(img_w))
        y1 == clampf(QAdd(row[1], hh), QZero, QInt(img_h))
    IN  IF ScoreAbove(score, conf)
        THEN <<Object(Rect(x0, y0, QSub(x1, x0), QSub(y1, y0)), label, score)>>
        ELSE <<>>

RECURSIVE ParseFrom(_, _, _, _, _, _, _, _)
ParseFrom(inputs, conf, num_channels, num_anchors, num_labels, img_w, img_h, i) ==
    IF i >= num_anchors THEN <<>>
    ELSE ParseAnchor(Row(inputs, num_channels, num_anchors, i), conf, num_labels,
                     img_w, img_h)
         \o ParseFrom(inputs, conf, num_channels, num_anchors, num_labels,
                      img_w, img_h, i + 1)

parse_yolov11_detections(inputs, conf, num_channels, num_anchors, num_labels, img_w, img_h) ==
    ParseFrom(inputs, conf, num_channels, num_anchors, num_labels, img_w, img_h, 0)

----------------------------------------------------------------------------
(* qsort_descent_inplace as one thread runs it (the order of the sections does not *)
(* matter: they work on disjoint ranges)                                          *)

RECURSIVE ScanUp(_, _, _)
ScanUp(objs, i, p) == IF QLt(p, At(objs, i).prob) THEN ScanUp(objs, i + 1, p) ELSE i

RECURSIVE ScanDown(_, _, _)
ScanDown(objs, j, p) == IF QLt(At(objs, j).prob, p) THEN ScanDown(objs, j - 1, p) ELSE j

RECURSIVE Partition(_, _, _, _)
Partition(objs, i, j, p) ==
    IF i <= j
    THEN LET i2 == ScanUp(objs, i, p)
             j2 == ScanDown(objs, j, p)
         IN  IF i2 <= j2 THEN Partition(Swap(objs, i2, j2), i2 + 1, j2 - 1, p)
             ELSE Partition(objs, i2, j2, p)
    ELSE [objs |-> objs, i |-> i, j |-> j]

RECURSIVE QsortRange(_, _, _)
QsortRange(objs, left, right) ==
    LET part == Partition(objs, left, right, At(objs, (left + right) \div 2).prob)
        o1 == IF left < part.j THEN QsortRange(part.objs, left, part.j) ELSE part.objs
    IN  IF part.i < right THEN QsortRange(o1, part.i, right) ELSE o1

QsortDescent(objs) == IF objs # <<>> THEN QsortRange(objs, 0, Len(objs) - 1) ELSE objs

----------------------------------------------------------------------------
(* YoloV11::detect and main *)

target_size == 480
MAX_STRIDE == 32

\* the binary32 quotient t / d of two positive ints: mantissa m and exponent e with
\* value m * 2^(-e), 2^23 <= m < 2^24, rounded to nearest, ties to even
RECURSIVE DivBits(_, _, _, _)
DivBits(q, r, d, e) ==
    IF q >= 2^23 THEN [q |-> q, r |-> r, e |-> e]
    ELSE DivBits(2 * q + (IF 2 * r >= d THEN 1 ELSE 0), (2 * r) % d, d, e + 1)

FloatDiv(t, d) ==
    LET b  == DivBits(t \div d, t % d, d, 0)
        up == 2 * b.r > d \/ (2 * b.r = d /\ b.q % 2 = 1)
        m  == IF up THEN b.q + 1 ELSE b.q
    IN  IF m = 2^24 THEN [m |-> 2^23, e |-> b.e - 1] ELSE [m |-> m, e |-> b.e]

\* least s with hi < 2^(12 + s)
RECURSIVE ExtraBits(_, _)
ExtraBits(hi, s) == IF hi < 2^(12 + s) THEN s ELSE ExtraBits(hi, s + 1)

\* (int)(n * f) for an int n in 1 .. 4095 and a binary32 f = [m, e]: the product is
\* rounded to binary32 (nearest, ties to even), then truncated
FloatMulTrunc(n, f) ==
    LET lo0 == n * (f.m % 4096)
        hi  == n * (f.m \div 4096) + lo0 \div 4096
        lo  == lo0 % 4096
        s   == ExtraBits(hi, 0)
        r   == hi * 2^(12 - s) + lo \div 2^s
        d   == lo % 2^s
        up  == s > 0 /\ (2 * d > 2^s \/ (2 * d = 2^s /\ r % 2 = 1))
        rr  == IF up THEN r + 1 ELSE r
    IN  rr \div 2^(f.e - s)

\* lines 156-170: scale, the resized size w x h, the padding and the size of in_pad.
\* scale is kept as the exact quotient for the later division; the binary32 value is
\* used where the conversion to int makes its rounding visible
Letterbox(img_w, img_h) ==
    LET big == IF img_w > img_h THEN img_w ELSE img_h
        fs  == FloatDiv(target_size, big)
        w0  == FloatMulTrunc(img_w, fs)
        h0  == FloatMulTrunc(img_h, fs)
        w   == IF w0 > h0 THEN target_size ELSE w0
        h   == IF w0 > h0 THEN h0 ELSE target_size
        wpad == ((target_size + MAX_STRIDE - 1) \div MAX_STRIDE) * MAX_STRIDE - w
        hpad == ((target_size + MAX_STRIDE - 1) \div MAX_STRIDE) * MAX_STRIDE - h
    IN  [scale |-> Q(target_size, big), w |-> w, h |-> h, wpad |-> wpad, hpad |-> hpad,
         in_pad_w |-> w + wpad, in_pad_h |-> h + hpad]

\* lines 197-206: one kept proposal mapped back to the original image
MapObject(o, l, img_w, img_h) ==
    LET px == QInt(l.wpad \div 2)
        py == QInt(l.hpad \div 2)
        x0 == QDiv(QSub(o.rect.x, px), l.scale)
        y0 == QDiv(QSub(o.rect.y, py), l.scale)
        x1 == QDiv(QSub(QAdd(o.rect.x, o.rect.width), px), l.scale)
        y1 == QDiv(QSub(QAdd(o.rect.y, o.rect.height), py), l.scale)
        cx0 == clampf(x0, QZero, QInt(img_w - 1))
        cy0 == clampf(y0, QZero, QInt(img_h - 1))
        cx1 == clampf(x1, QZero, QInt(img_w - 1))
        cy1 == clampf(y1, QZero, QInt(img_h - 1))
    IN  [o EXCEPT !.rect = Rect(cx0, cy0, QSub(cx1, cx0), QSub(cy1, cy0))]

\* most anchors of an output tensor
MaxAnchors == 3

\* rows (cx, cy, w, h, score of class 0, score of class 1) an output tensor may hold
AnchorRows ==
    { <<QInt(100), QInt(100), QInt(40), QInt(30), Q(9, 10), Q(1, 10)>>,
      <<QInt(110), QInt(100), QInt(40), QInt(30), Q(1, 5), Q(4, 5)>>,
      <<QInt(104), QInt(100), QInt(40), QInt(30), Q(4, 5), Q(1, 5)>>,
      <<QInt(500), QInt(240), QInt(60), QInt(41), Q(3, 10), Q(3, 10)>>,
      <<QInt(100), QInt(100), QInt(0 - 20), QInt(30), Q(7, 10), QZero>>,
      <<QInt(240), QInt(240), QInt(50), QInt(50), Q(1, 4), Q(1, 5)>>,
      <<QInt(240), QInt(240), QInt(50), QInt(50), Q(1, 10), Q(1, 5)>>,
      <<QInt(0 - 30), QInt(600), QInt(20), QInt(20), QZero, Q(3, 5)>> }

\* the ncnn::Mat holding the rows: w = anchors, h = channels, data channel-major
TensorOf(rows) ==
    [w |-> Len(rows), h |-> Len(rows[1]),
     data |-> [n \in 1 .. (Len(rows) * Len(rows[1])) |->
                  rows[((n - 1) % Len(rows)) + 1][((n - 1) \div Len(rows)) + 1]]]

Tensors == {TensorOf(rows) : rows \in UNION {[1 .. n -> AnchorRows] : n \in 1 .. MaxAnchors}}

\* an ncnn::Mat nothing was extracted into
EmptyMat == [w |-> 0, h |-> 0, data |-> <<>>]

\* image sizes (cols, rows)
ImageSizes == {<<640, 480>>, <<480, 640>>, <<640, 361>>, <<533, 532>>, <<29, 29>>, <<1, 1>>}

\* argc values: too few arguments, the defaults, every optional argument given
ArgCounts == {2, 3, 6}

\* argv[4] and argv[5] when given
ArgConf == Q(1, 2)
ArgNms == Q(3, 5)

sortNmsIdle ==
    /\ sortIn = <<>>
    /\ frames = <<>>
    /\ sortPc = "idle"
    /\ nmsI = 0
    /\ divByZero = FALSE
    /\ nmsPc = "idle"

Init ==
    /\ mpc = "start"
    /\ argc \in ArgCounts
    /\ imgEmpty = FALSE
    /\ img = [cols |-> 0, rows |-> 0]
    /\ net = "unconstructed"
    /\ out = EmptyMat
    /\ conf_thres = QZero
    /\ nms_threshold = QZero
    /\ agnostic = FALSE
    /\ lb = <<>>
    /\ proposals = <<>>
    /\ picked = <<>>
    /\ objects = <<>>
    /\ exited = FALSE
    /\ exitCode = 0
    /\ diag = FALSE
    /\ sortNmsIdle

pipeIdle == <<sortIn, frames, sortPc, nmsI, divByZero, nmsPc>>

\* lines 233-246: the usage check and the optional arguments
MainArgs ==
    /\ mpc = "start"
    /\ IF argc < 3
       THEN /\ mpc' = "exit"
            /\ exited' = TRUE
            /\ exitCode' = 0 - 1
            /\ UNCHANGED <<conf_thres, nms_threshold>>
       ELSE /\ mpc' = "argsOk"
            /\ conf_thres' = IF argc > 4 THEN ArgConf ELSE Q(1, 4)
            /\ nms_threshold' = IF argc > 5 THEN ArgNms ELSE Q(9, 20)
            /\ UNCHANGED <<exited, exitCode>>
    /\ UNCHANGED <<argc, imgEmpty, img, net, out, lb, proposals, picked,
                   objects, diag, agnostic, pipeIdle>>

\* lines 248-253: cv::imread and the empty check
MainImread ==
    /\ mpc = "argsOk"
    /\ \/ /\ imgEmpty' = TRUE
          /\ img' = img
          /\ diag' = TRUE
          /\ mpc' = "exit"
          /\ exited' = TRUE
          /\ exitCode' = 0 - 1
       \/ /\ imgEmpty' = FALSE
          /\ \E sz \in ImageSizes : img' = [cols |-> sz[1], rows |-> sz[2]]
          /\ mpc' = "imgRead"
          /\ UNCHANGED <<diag, exited, exitCode>>
    /\ UNCHANGED <<argc, net, out, conf_thres, nms_threshold, lb,
                   proposals, picked, objects, agnostic, pipeIdle>>

\* line 266, lines 128-148: the constructor; what load_param and load_model return
\* is not looked at
Construct ==
    /\ mpc = "imgRead"
    /\ net' \in {"loaded", "missing"}
    /\ mpc' = "constructed"
    /\ UNCHANGED <<argc, imgEmpty, img, out, conf_thres, nms_threshold, lb,
                   proposals, picked, objects, exited, exitCode, diag, agnostic, pipeIdle>>

\* lines 153-173: resize and pad
DetectLetterbox ==
    /\ mpc = "constructed"
    /\ lb' = Letterbox(img.cols, img.rows)
    /\ mpc' = "letterboxed"
    /\ UNCHANGED <<argc, imgEmpty, img, net, out, conf_thres,
                   nms_threshold, proposals, picked, objects, exited, exitCode, diag,
                   agnostic, pipeIdle>>

\* lines 175-185: the forward pass; a net without its files extracts nothing
DetectExtract ==
    /\ mpc = "letterboxed"
    /\ IF net = "loaded" THEN \E t \in Tensors : out' = t ELSE out' = EmptyMat
    /\ mpc' = "extracted"
    /\ UNCHANGED <<argc, imgEmpty, img, net, conf_thres, nms_threshold, lb,
                   proposals, picked, objects, exited, exitCode, diag, agnostic, pipeIdle>>

\* lines 187-188
DetectParse ==
    /\ mpc = "extracted"
    /\ proposals' = parse_yolov11_detections(out.data, conf_thres, out.h, out.w, out.h - 4,
                                             lb.in_pad_w, lb.in_pad_h)
    /\ mpc' = "parsed"
    /\ UNCHANGED <<argc, imgEmpty, img, net, out, conf_thres,
                   nms_threshold, lb, picked, objects, exited, exitCode, diag, agnostic,
                   pipeIdle>>

\* line 190
DetectSort ==
    /\ mpc = "parsed"
    /\ proposals' = QsortDescent(proposals)
    /\ mpc' = "sorted"
    /\ UNCHANGED <<argc, imgEmpty, img, net, out, conf_thres,
                   nms_threshold, lb, picked, objects, exited, exitCode, diag, agnostic,
                   pipeIdle>>

\* lines 191-192: agnostic takes its default, false
DetectNms ==
    /\ mpc = "sorted"
    /\ picked' = nms_sorted_bboxes(proposals, nms_threshold, FALSE)
    /\ mpc' = "picked"
    /\ UNCHANGED <<argc, imgEmpty, img, net, out, conf_thres,
                   nms_threshold, lb, proposals, objects, exited, exitCode, diag, agnostic,
                   pipeIdle>>

\* lines 194-207
DetectMap ==
    /\ mpc = "picked"
    /\ objects' = [k \in 1 .. Len(picked) |->
                     MapObject(At(proposals, picked[k]), lb, img.cols, img.rows)]
    /\ mpc' = "mapped"
    /\ UNCHANGED <<argc, imgEmpty, img, net, out, conf_thres,
                   nms_threshold, lb, proposals, picked, exited, exitCode, diag, agnostic,
                   pipeIdle>>

\* line 269
SaveResult ==
    /\ mpc = "mapped"
    /\ mpc' = "saved"
    /\ UNCHANGED <<argc, imgEmpty, img, net, out, conf_thres,
                   nms_threshold, lb, proposals, picked, objects, exited, exitCode, diag,
                   agnostic, pipeIdle>>

\* line 270
MainReturn ==
    /\ mpc = "saved"
    /\ mpc' = "exit"
    /\ exited' = TRUE
    /\ exitCode' = 0
    /\ UNCHANGED <<argc, imgEmpty, img, net, out, conf_thres,
                   nms_threshold, lb, proposals, picked, objects, diag, agnostic, pipeIdle>>

Next ==
    \/ MainArgs
    \/ MainImread
    \/ Construct
    \/ DetectLetterbox
    \/ DetectExtract
    \/ DetectParse
    \/ DetectSort
    \/ DetectNms
    \/ DetectMap
    \/ SaveResult
    \/ MainReturn

Spec == Init /\ [][Next]_vars

----------------------------------------------------------------------------
(* Claims about the sorter *)

\* how often x occurs in the list s
RECURSIVE CountOf(_, _)
CountOf(s, x) ==
    IF s = <<>> THEN 0 ELSE (IF Head(s) = x THEN 1 ELSE 0) + CountOf(Tail(s), x)

Range(s) == {s[k] : k \in 1 .. Len(s)}

IsPermutation(s, t) ==
    /\ Len(s) = Len(t)
    /\ \A x \in Range(s) \cup Range(t) : CountOf(s, x) = CountOf(t, x)

NonIncreasing(s) ==
    \A k \in 1 .. (Len(s) - 1) : QLe(s[k + 1].prob, s[k].prob)

\* C2: when qsort_descent_inplace has returned, the list is a permutation of its input
\* (same multiset of candidates) and every adjacent pair has prob[k] >= prob[k+1];
\* this covers the empty list, one element and equal probabilities.
C2_SortedPermutation ==
    sortPc = "returned" => IsPermutation(proposals, sortIn) /\ NonIncreasing(proposals)

\* C2 witness: a list of three or more candidates with a tie came back reordered
C2_Witness ==
    /\ sortPc = "returned"
    /\ Len(proposals) >= 3
    /\ proposals # sortIn
    /\ \E a, b \in 1 .. Len(proposals) : a # b /\ proposals[a].prob = proposals[b].prob

IsPrefix(f, g) == Len(f) <= Len(g) /\ SubSeq(g, 1, Len(f)) = f

Unrelated(f, g) == ~IsPrefix(f, g) /\ ~IsPrefix(g, f)

Span(fr) == fr.left .. fr.right

\* every index a frame has read or written lies in its own range, and a scan index
\* that is about to be dereferenced does too
AccessInRange ==
    \A f \in DOMAIN frames :
        /\ frames[f].acc \subseteq Span(frames[f])
        /\ frames[f].pc # "ub"
        /\ frames[f].pc = "scanI" => frames[f].i \in Span(frames[f])
        /\ frames[f].pc = "scanJ" => frames[f].j \in Span(frames[f])

\* the two sections of a frame are on [left, j] and [i, right] with j < i, and frames
\* that can run at the same time (neither called the other) are on disjoint ranges
DisjointBranches ==
    /\ \A f \in DOMAIN frames :
        /\ Child1(f) \in DOMAIN frames =>
              Span(frames[Child1(f)]) = frames[f].left .. frames[f].j
        /\ Child2(f) \in DOMAIN frames =>
              Span(frames[Child2(f)]) = frames[f].i .. frames[f].right
        /\ frames[f].pc \in {"join", "done"} => frames[f].j < frames[f].i
    /\ \A f, g \in DOMAIN frames :
        Unrelated(f, g) => Span(frames[f]) \cap Span(frames[g]) = {}

\* every recursive call is on a strictly smaller range inside its caller's
SmallerRanges ==
    \A f \in DOMAIN frames : \A c \in {Child1(f), Child2(f)} :
        c \in DOMAIN frames =>
            /\ Span(frames[c]) \subseteq Span(frames[f])
            /\ frames[c].right - frames[c].left < frames[f].right - frames[f].left

\* the caller gets control back only when no branch is still running
JoinedBeforeReturn ==
    /\ sortPc = "returned" => \A f \in DOMAIN frames : frames[f].pc = "done"
    /\ \A f \in DOMAIN frames : frames[f].pc = "done" =>
          \A g \in DOMAIN frames : IsPrefix(f, g) => frames[g].pc = "done"

C10_Safe ==
    AccessInRange /\ DisjointBranches /\ SmallerRanges /\ JoinedBeforeReturn

\* C10: under every interleaving of the sections, branches touch only their own,
\* pairwise disjoint ranges ([left, j] and [i, right], j < i), each recursive call is on
\* a strictly smaller range and the sort ends, and it returns only after every branch.
C10_ParallelSort ==
    [](C10_Safe) /\ <>(sortPc = "returned")

\* C10 witness: both sections of the outermost call are running at the same time,
\* each having already touched its range
C10_Witness ==
    /\ <<1>> \in DOMAIN frames
    /\ <<2>> \in DOMAIN frames
    /\ frames[<<1>>].pc \in {"scanI", "scanJ", "swap"}
    /\ frames[<<2>>].pc \in {"scanI", "scanJ", "swap"}
    /\ frames[<<1>>].acc # {}
    /\ frames[<<2>>].acc # {}

\* the sections are scheduled by the OpenMP runtime: a section that can step does
SpecSortFair == InitSort /\ [][NextSort]_vars /\ WF_vars(NextSort)

----------------------------------------------------------------------------
(* Claims about the NMS filter *)

\* IoU of two candidates as the claims define it, intersection area over
\* (area_i + area_j - intersection area): a number, +inf (x / 0, x > 0) or NaN (0 / 0)
IoU(a, b) ==
    LET inter == intersection_area(a, b)
        union == QSub(QAdd(QMul(a.rect.width, a.rect.height),
                           QMul(b.rect.width, b.rect.height)), inter)
    IN  IF union # QZero THEN [kind |-> "num", val |-> QDiv(inter, union)]
        ELSE IF inter # QZero THEN [kind |-> "inf", val |-> QZero]
        ELSE [kind |-> "nan", val |-> QZero]

IoUGreater(a, b, thr) ==
    IoU(a, b).kind = "inf" \/ (IoU(a, b).kind = "num" /\ QLt(thr, IoU(a, b).val))

IoULessEq(a, b, thr) ==
    IoU(a, b).kind = "num" /\ QLe(IoU(a, b).val, thr)

PickedSet == Range(picked)

NonEmptyRect(r) == QLt(QZero, r.width) /\ QLt(QZero, r.height)

\* C1: with agnostic = false, any two picked candidates with the same label have
\* IoU <= nms_threshold.
C1_NmsInvariant ==
    (nmsPc = "done" /\ ~agnostic) =>
        \A i, j \in PickedSet :
            (i < j /\ At(proposals, i).label = At(proposals, j).label) =>
                IoULessEq(At(proposals, i), At(proposals, j), nms_threshold)

\* C7: comparing two zero-area boxes (area_i + area_j - intersection = 0) performs no
\* division by zero, and that comparison never suppresses a candidate.
C7_ZeroAreaGuarded ==
    /\ ~divByZero
    /\ \A i \in 0 .. (nmsI - 1) : \A j \in PickedSet :
          (j < i /\ Compared(agnostic, At(proposals, i), At(proposals, j))
                 /\ UnionArea(At(proposals, i), At(proposals, j)) = QZero
                 /\ \A k \in PickedSet : k < i /\ k # j =>
                        ~IoUGreater(At(proposals, i), At(proposals, k), nms_threshold))
              => i \in PickedSet

\* what a greedy scan over the input order picks among the indices below n
GreedyPicks(i) ==
    ~\E j \in PickedSet :
        /\ j < i
        /\ agnostic \/ At(proposals, i).label = At(proposals, j).label
        /\ IoUGreater(At(proposals, i), At(proposals, j), nms_threshold)

\* C9: index i is picked iff no earlier picked j (same label, or any label when
\* agnostic) has IoU(i, j) > nms_threshold; picked is strictly increasing and no longer
\* than the input; of two same-label boxes with IoU 0.6 at threshold 0.45 only the
\* first is kept; two identical boxes (of positive area) with different labels both
\* survive when agnostic = false and only the first when agnostic = true.
C9_GreedySelection ==
    /\ \A i \in 0 .. (nmsI - 1) : (i \in PickedSet) <=> GreedyPicks(i)
    /\ PickedSet \subseteq 0 .. (nmsI - 1)
    /\ \A a, b \in 1 .. Len(picked) : a < b => picked[a] < picked[b]
    /\ Len(picked) <= Len(proposals)
    /\ (nmsPc = "done" /\ Len(proposals) = 2) =>
          LET a == proposals[1]
              b == proposals[2]
          IN  /\ (a.rect = BoxA /\ b.rect = BoxB /\ a.label = b.label
                    /\ nms_threshold = Q(9, 20)) => picked = <<0>>
              /\ (a.rect = b.rect /\ NonEmptyRect(a.rect) /\ a.label # b.label
                    /\ QLt(nms_threshold, QInt(1))) =>
                     picked = (IF agnostic THEN <<0>> ELSE <<0, 1>>)

\* C9 witness: a finished class-agnostic run over three candidates that dropped the
\* middle one because of a kept box with another label and kept the last one
C9_Witness ==
    /\ nmsPc = "done"
    /\ agnostic
    /\ Len(proposals) = 3
    /\ picked = <<0, 2>>
    /\ proposals[1].label # proposals[2].label
    /\ IoUGreater(proposals[2], proposals[1], nms_threshold)

----------------------------------------------------------------------------
(* Claims about the decoder, the coordinate mapping, the letterbox and main *)

\* the score of class c at anchor i, read from the channel-major tensor
ScoreOf(i, c) == out.data[(4 + c) * out.w + i + 1]

ClassIndices == 0 .. (out.h - 5)

\* the maximum class score of anchor i
MaxScore(i) ==
    CHOOSE v \in {ScoreOf(i, c) : c \in ClassIndices} :
        \A c \in ClassIndices : QLe(ScoreOf(i, c), v)

\* the index of that maximum (the lowest one when several classes reach it)
ArgMax(i) ==
    CHOOSE c \in ClassIndices :
        /\ ScoreOf(i, c) = MaxScore(i)
        /\ \A d \in ClassIndices : ScoreOf(i, d) = MaxScore(i) => c <= d

\* the anchors whose maximum class score is strictly above the threshold
Emitted == {i \in 0 .. (out.w - 1) : QLt(conf_thres, MaxScore(i))}

\* the k-th anchor of Emitted in increasing order
NthEmitted(k) ==
    CHOOSE i \in Emitted : Cardinality({e \in Emitted : e < i}) = k - 1

Decoded == mpc = "parsed"

\* C3: the decoder emits exactly one candidate per anchor whose maximum class score
\* is strictly greater than conf_thres, in anchor order, and none for any other anchor;
\* its prob is that maximum (so prob > conf_thres) and its label the index of it.
C3_DecoderEmits ==
    Decoded =>
        /\ Len(proposals) = Cardinality(Emitted)
        /\ \A k \in 1 .. Len(proposals) :
              /\ proposals[k].prob = MaxScore(NthEmitted(k))
              /\ proposals[k].label = ArgMax(NthEmitted(k))
              /\ QLt(conf_thres, proposals[k].prob)

\* C3 witness: a tensor of three anchors was decoded in which one anchor scores
\* exactly conf_thres (not emitted), one is emitted with label 1 and one with label 0
C3_Witness ==
    /\ Decoded
    /\ out.w = 3
    /\ \E i \in 0 .. (out.w - 1) : MaxScore(i) = conf_thres
    /\ Len(proposals) = 2
    /\ proposals[1].label # proposals[2].label

\* both corners of rect r lie in [0, maxx] x [0, maxy]
CornersWithin(r, maxx, maxy) ==
    /\ QLe(QZero, r.x) /\ QLe(r.x, QInt(maxx))
    /\ QLe(QZero, r.y) /\ QLe(r.y, QInt(maxy))
    /\ QLe(QZero, QAdd(r.x, r.width)) /\ QLe(QAdd(r.x, r.width), QInt(maxx))
    /\ QLe(QZero, QAdd(r.y, r.height)) /\ QLe(QAdd(r.y, r.height), QInt(maxy))

LetterboxDone ==
    mpc \in {"letterboxed", "extracted", "parsed", "sorted", "picked", "mapped", "saved"}

Mapped == mpc \in {"mapped", "saved"}

\* the x1 a row computes before clamping: cx + w / 2
RawX1(i) == QAdd(out.data[i + 1], QMul(Q(1, 2), out.data[2 * out.w + i + 1]))

\* C4: every candidate leaving the decoder has both corners in [0, padded_width] x
\* [0, padded_height], a corner computed at padded_width + 50 becomes exactly
\* padded_width, and every box detect returns has both corners in [0, W-1] x [0, H-1].
C4_Clamped ==
    /\ LetterboxDone =>
          \A k \in 1 .. Len(proposals) :
              CornersWithin(proposals[k].rect, lb.in_pad_w, lb.in_pad_h)
    /\ Decoded =>
          \A k \in 1 .. Len(proposals) :
              RawX1(NthEmitted(k)) = QInt(lb.in_pad_w + 50) =>
                  QAdd(proposals[k].rect.x, proposals[k].rect.width) = QInt(lb.in_pad_w)
    /\ Mapped =>
          \A k \in 1 .. Len(objects) :
              CornersWithin(objects[k].rect, img.cols - 1, img.rows - 1)

\* C4 witness: detect has mapped a box whose decoded corner lay at padded_width + 50
\* (clamped to padded_width) and whose mapped corner was clamped to W - 1
C4_Witness ==
    /\ Mapped
    /\ \E i \in 0 .. (out.w - 1) : RawX1(i) = QInt(lb.in_pad_w + 50)
    /\ \E k \in 1 .. Len(proposals) :
          QAdd(proposals[k].rect.x, proposals[k].rect.width) = QInt(lb.in_pad_w)
    /\ \E k \in 1 .. Len(objects) :
          /\ QAdd(objects[k].rect.x, objects[k].rect.width) = QInt(img.cols - 1)
          /\ QLt(QZero, objects[k].rect.width)

\* C5: every candidate has non-negative width and height, as decoded from any tensor
\* row and after the coordinate mapping.
C5_NonNegativeSize ==
    /\ \A k \in 1 .. Len(proposals) :
          QLe(QZero, proposals[k].rect.width) /\ QLe(QZero, proposals[k].rect.height)
    /\ \A k \in 1 .. Len(objects) :
          QLe(QZero, objects[k].rect.width) /\ QLe(QZero, objects[k].rect.height)

\* C6: with an empty image or missing model files the run never reaches detect,
\* save_result or exit code 0, and ends with a diagnostic and a non-zero exit code.
C6_AbortsOnFailure ==
    (imgEmpty \/ net = "missing") =>
        /\ ~LetterboxDone
        /\ exited => (exitCode # 0 /\ diag)

\* the nearest integer of a non-negative rational
Round(a) == Trunc(QAdd(a, Q(1, 2)))

\* min(T / W, T / H)
MinScale(W, H) == StdMin(Q(target_size, W), Q(target_size, H))

\* C8: scale = min(T/W, T/H), w = round(W * scale), h = round(H * scale), the side of
\* the larger of W and H is exactly T and the other does not exceed T.
C8_Letterbox ==
    LetterboxDone =>
        /\ lb.scale = MinScale(img.cols, img.rows)
        /\ lb.w = Round(QMul(QInt(img.cols), MinScale(img.cols, img.rows)))
        /\ lb.h = Round(QMul(QInt(img.rows), MinScale(img.cols, img.rows)))
        /\ img.cols > img.rows => (lb.w = target_size /\ lb.h <= target_size)
        /\ img.rows > img.cols => (lb.h = target_size /\ lb.w <= target_size)
        /\ img.cols = img.rows => (lb.w = target_size /\ lb.h = target_size)

====
